---- MODULE Spec2Model ----
(***************************************************************************)
(* Service-to-service authentication (svcauth.Sign / svcauth.Verify) and   *)
(* the experiment set (experiments.NewSet) of encore.                      *)
(*                                                                         *)
(* Go strings whose content the code inspects (method names, experiment    *)
(* names, environment values) are sequences of one-character strings, so   *)
(* that equality, prefix tests, trimming and splitting are computed.       *)
(***************************************************************************)
EXTENDS Integers, Sequences, FiniteSets, TLC

VARIABLES req, op, intact, signed,
          fromAppFile, osEnv, environ, ret

authVars == <<req, op, intact, signed>>
expVars == <<fromAppFile, osEnv, environ, ret>>
vars == <<req, op, intact, signed, fromAppFile, osEnv, environ, ret>>

(***************************************************************************)
(* Bounds of the model.                                                    *)
(***************************************************************************)
MaxLoaded == 2

\* names, environ entries and quotings in the inputs of one NewSet call
MaxInput == 4

(***************************************************************************)
(* Go values.                                                              *)
(***************************************************************************)
\* the nil error
Nil == [msg |-> "nil"]

\* fmt.Errorf("<msg>: %w", cause)
Errorf_w(msg, cause) == [msg |-> msg, wraps |-> cause]

\* fmt.Errorf("<msg>: %s", s)
Errorf_s(msg, s) == [msg |-> msg, arg |-> s]

\* the zero string
EmptyString == <<>>

(***************************************************************************)
(* transport.Transport: the metadata carrier of a request.                 *)
(***************************************************************************)
AuthMethodMetaKey == "Svc-Auth-Method"

AuthTagMetaKey == "Svc-Auth-Tag"

NoMeta == [k \in {} |-> EmptyString]

SetMeta(r, key, value) ==
    [r EXCEPT !.meta = [k \in (DOMAIN r.meta) \cup {key} |->
                           IF k = key THEN value ELSE r.meta[k]]]

ReadMeta(r, key) ==
    IF key \in DOMAIN r.meta
    THEN [value |-> r.meta[key], found |-> TRUE]
    ELSE [value |-> EmptyString, found |-> FALSE]

(***************************************************************************)
(* ServiceAuth: a shared-secret message authentication method.  A method   *)
(* is [name, key, vkey]: the name it declares, the secret it signs with    *)
(* (NoKey when the key material is missing) and the secret it verifies     *)
(* with.                                                                   *)
(***************************************************************************)
NoKey == "no-key"

Mac(key, body) == <<key, body>>

method(m) == m.name

sign(m, r) ==
    IF m.key = NoKey
    THEN [req |-> r, err |-> [msg |-> "missing key material"]]
    ELSE [req |-> SetMeta(r, AuthTagMetaKey, Mac(m.key, r.body)), err |-> Nil]

verify(m, r) ==
    LET tag == ReadMeta(r, AuthTagMetaKey)
    IN  IF ~tag.found THEN [msg |-> "missing signature"]
        ELSE IF tag.value # Mac(m.vkey, r.body) THEN [msg |-> "bad signature"]
        ELSE Nil

(***************************************************************************)
(* svcauth.Sign and svcauth.Verify.                                        *)
(***************************************************************************)
\* Sign that forgets to stamp the method name
Sign_NoMarker(m, r) ==
    LET s == sign(m, r)
    IN  IF s.err # Nil
        THEN [req |-> s.req, err |-> Errorf_w("failed to sign request", s.err)]
        ELSE [req |-> s.req, err |-> Nil]

\* Sign that stamps the method name before the method has signed
Sign_MarkerFirst(m, r) ==
    LET s == sign(m, SetMeta(r, AuthMethodMetaKey, method(m)))
    IN  IF s.err # Nil
        THEN [req |-> s.req, err |-> Errorf_w("failed to sign request", s.err)]
        ELSE [req |-> s.req, err |-> Nil]

\* Sign that stamps the method name only on a request that has none yet
Sign_KeepFirstMarker(m, r) ==
    LET s == sign(m, r)
    IN  IF s.err # Nil
        THEN [req |-> s.req, err |-> Errorf_w("failed to sign request", s.err)]
        ELSE IF ReadMeta(s.req, AuthMethodMetaKey).found
        THEN [req |-> s.req, err |-> Nil]
        ELSE [req |-> SetMeta(s.req, AuthMethodMetaKey, method(m)), err |-> Nil]

Sign(m, r) ==
    LET s == sign(m, r)
    IN  IF s.err # Nil
        THEN [req |-> s.req, err |-> Errorf_w("failed to sign request", s.err)]
        ELSE [req |-> SetMeta(s.req, AuthMethodMetaKey, method(m)), err |-> Nil]

RECURSIVE VerifyLoop(_, _, _, _)
\* the range loop of Verify from index i on; calls lists the methods whose
\* verify operation was invoked
VerifyLoop(r, loadedAuthMethods, i, name) ==
    IF i > Len(loadedAuthMethods)
    THEN [internalCall |-> FALSE,
          err |-> Errorf_s("unknown service to service authentication method", name),
          calls |-> <<>>]
    ELSE LET authMethod == loadedAuthMethods[i]
         IN  IF method(authMethod) = name
             THEN LET e == verify(authMethod, r)
                  IN  IF e # Nil
                      THEN [internalCall |-> FALSE,
                            err |-> Errorf_w("failed to verify request", e),
                            calls |-> <<authMethod>>]
                      ELSE [internalCall |-> TRUE, err |-> Nil,
                            calls |-> <<authMethod>>]
             ELSE VerifyLoop(r, loadedAuthMethods, i + 1, name)

\* strings.HasPrefix(s, prefix)
HasPrefix(s, prefix) ==
    /\ Len(prefix) <= Len(s)
    /\ SubSeq(s, 1, Len(prefix)) = prefix

UnknownMethod(name) ==
    [internalCall |-> FALSE,
     err |-> Errorf_s("unknown service to service authentication method", name),
     calls |-> <<>>]

Checked(authMethod, r) ==
    LET e == verify(authMethod, r)
    IN  IF e # Nil
        THEN [internalCall |-> FALSE,
              err |-> Errorf_w("failed to verify request", e),
              calls |-> <<authMethod>>]
        ELSE [internalCall |-> TRUE, err |-> Nil, calls |-> <<authMethod>>]

MinOf(S) == CHOOSE i \in S : \A j \in S : i <= j

MaxOf(S) == CHOOSE i \in S : \A j \in S : j <= i

\* Verify that scans also when the entry is absent
Verify_IgnoreFound(r, loadedAuthMethods) ==
    VerifyLoop(r, loadedAuthMethods, 1, ReadMeta(r, AuthMethodMetaKey).value)

\* Verify that accepts a loaded method whose name starts with the declared one
Verify_PrefixMatch(r, loadedAuthMethods) ==
    LET m == ReadMeta(r, AuthMethodMetaKey)
        hits == {i \in 1..Len(loadedAuthMethods) :
                    HasPrefix(method(loadedAuthMethods[i]), m.value)}
    IN  IF ~m.found
        THEN [internalCall |-> FALSE, err |-> Nil, calls |-> <<>>]
        ELSE IF hits = {} THEN UnknownMethod(m.value)
        ELSE Checked(loadedAuthMethods[MinOf(hits)], r)

\* Verify that drops the error of a failed verification
Verify_SwallowFailure(r, loadedAuthMethods) ==
    LET v == VerifyLoop(r, loadedAuthMethods, 1, ReadMeta(r, AuthMethodMetaKey).value)
    IN  IF ~ReadMeta(r, AuthMethodMetaKey).found \/ v.calls # <<>>
        THEN [internalCall |-> v.internalCall, err |-> Nil, calls |-> v.calls]
        ELSE v

\* Verify that falls back to the other loaded methods when the declared one fails
Verify_Fallback(r, loadedAuthMethods) ==
    LET v == VerifyLoop(r, loadedAuthMethods, 1, ReadMeta(r, AuthMethodMetaKey).value)
        others == {i \in 1..Len(loadedAuthMethods) :
                      /\ <<loadedAuthMethods[i]>> # v.calls
                      /\ verify(loadedAuthMethods[i], r) = Nil}
    IN  IF ~ReadMeta(r, AuthMethodMetaKey).found
        THEN [internalCall |-> FALSE, err |-> Nil, calls |-> <<>>]
        ELSE IF v.calls # <<>> /\ ~v.internalCall /\ others # {}
        THEN [internalCall |-> TRUE, err |-> Nil,
              calls |-> v.calls \o <<loadedAuthMethods[MinOf(others)]>>]
        ELSE v

\* Verify that lets the last loaded method of the declared name decide
Verify_LastMatch(r, loadedAuthMethods) ==
    LET m == ReadMeta(r, AuthMethodMetaKey)
        hits == {i \in 1..Len(loadedAuthMethods) :
                    method(loadedAuthMethods[i]) = m.value}
    IN  IF ~m.found
        THEN [internalCall |-> FALSE, err |-> Nil, calls |-> <<>>]
        ELSE IF hits = {} THEN UnknownMethod(m.value)
        ELSE Checked(loadedAuthMethods[MaxOf(hits)], r)

Verify(r, loadedAuthMethods) ==
    LET m == ReadMeta(r, AuthMethodMetaKey)
    IN  IF ~m.found
        THEN [internalCall |-> FALSE, err |-> Nil, calls |-> <<>>]
        ELSE VerifyLoop(r, loadedAuthMethods, 1, m.value)

(***************************************************************************)
(* Inputs of the model: method names, secrets, methods, request bodies.    *)
(***************************************************************************)
HmacV1 == <<"h", "m", "a", "c", "-", "v", "1">>
HmacV2 == <<"h", "m", "a", "c", "-", "v", "2">>
HmacUpper == <<"H", "M", "A", "C", "-", "V", "1">>
Hmac == <<"h", "m", "a", "c">>

MethodNames == {HmacV1, HmacV2, HmacUpper, Hmac, EmptyString}

Secrets == {"s3cr3t", "k2"}

Bodies == {"GET /orders/42", "GET /orders/43"}

Methods ==
    {[name |-> HmacV1, key |-> "s3cr3t", vkey |-> "s3cr3t"],
     [name |-> HmacV1, key |-> "k2", vkey |-> "k2"],
     [name |-> HmacV2, key |-> "k2", vkey |-> "k2"],
     [name |-> HmacV2, key |-> NoKey, vkey |-> "s3cr3t"],
     [name |-> HmacUpper, key |-> "s3cr3t", vkey |-> "s3cr3t"],
     [name |-> Hmac, key |-> "s3cr3t", vkey |-> "s3cr3t"],
     [name |-> EmptyString, key |-> "s3cr3t", vkey |-> "s3cr3t"],
     [name |-> Hmac, key |-> "s3cr3t", vkey |-> "k2"]}

NoMethod == [name |-> EmptyString, key |-> NoKey, vkey |-> NoKey]

SeqsUpTo(S, n) == UNION {[1..k -> S] : k \in 0..n}

LoadedSeqs == SeqsUpTo(Methods, MaxLoaded)

MetaValues(key) ==
    IF key = AuthMethodMetaKey THEN MethodNames
    ELSE {Mac(k, b) : k \in Secrets, b \in Bodies}

(***************************************************************************)
(* The life of one request: created, signed, carried (and possibly altered *)
(* on the way), verified.  op records the last operation and what it       *)
(* returned; intact is the method of the last successful Sign while the    *)
(* request is as that Sign left it; signed tells what the Sign calls on    *)
(* the request came to: none succeeded yet on a new request, the name of   *)
(* the method of the last one that succeeded (resigned when it replaced    *)
(* another name), or forged when the sender has set metadata since.        *)
(***************************************************************************)
AuthInit ==
    /\ req = [meta |-> NoMeta, body |-> "GET /orders/42"]
    /\ op = [kind |-> "new"]
    /\ intact = NoMethod
    /\ signed = [kind |-> "none"]

NewRequest ==
    \E b \in Bodies :
        /\ req' = [meta |-> NoMeta, body |-> b]
        /\ op' = [kind |-> "new"]
        /\ intact' = NoMethod
        /\ signed' = [kind |-> "none"]
        /\ UNCHANGED expVars

DoSign ==
    \E m \in Methods :
        LET s == Sign(m, req)
        IN  /\ req' = s.req
            /\ op' = [kind |-> "sign", m |-> m, err |-> s.err]
            /\ intact' = IF s.err = Nil THEN m
                         ELSE IF s.req = req THEN intact ELSE NoMethod
            /\ signed' = IF s.err # Nil THEN signed
                         ELSE IF signed.kind \in {"signed", "resigned"}
                                 /\ signed.name # method(m)
                         THEN [kind |-> "resigned", name |-> method(m)]
                         ELSE IF signed.kind = "resigned" THEN signed
                         ELSE [kind |-> "signed", name |-> method(m)]
            /\ UNCHANGED expVars

Tamper ==
    \E b \in Bodies \ {req.body} :
        /\ req' = [req EXCEPT !.body = b]
        /\ op' = [kind |-> "tamper"]
        /\ intact' = NoMethod
        /\ UNCHANGED signed
        /\ UNCHANGED expVars

Forge ==
    \E key \in {AuthMethodMetaKey, AuthTagMetaKey} :
        \E value \in MetaValues(key) :
            /\ req' = SetMeta(req, key, value)
            /\ req' # req
            /\ op' = [kind |-> "forge"]
            /\ intact' = NoMethod
            /\ signed' = [kind |-> "forged"]
            /\ UNCHANGED expVars

\* Verify leaves the request as it is, so verifying it once more starts from
\* the same request as the first time: one Verify per delivery is explored.
DoVerify ==
    \E loaded \in LoadedSeqs :
        LET v == Verify(req, loaded)
        IN  /\ op.kind # "verify"
            /\ op' = [kind |-> "verify", loaded |-> loaded,
                      internalCall |-> v.internalCall, err |-> v.err,
                      calls |-> v.calls]
            /\ UNCHANGED <<req, intact, signed>>
            /\ UNCHANGED expVars

(***************************************************************************)
(* package experiments.                                                    *)
(***************************************************************************)
envName == <<"E", "N", "C", "O", "R", "E", "_", "E", "X", "P", "E", "R", "I", "M", "E", "N", "T">>

LocalSecretsOverride == <<"l", "o", "c", "a", "l", "-", "s", "e", "c", "r", "e", "t", "s", "-", "o", "v", "e", "r", "r", "i", "d", "e">>

Metrics == <<"m", "e", "t", "r", "i", "c", "s">>

V2 == <<"v", "2">>

BetaRuntime == <<"b", "e", "t", "a", "-", "r", "u", "n", "t", "i", "m", "e">>

ExternalCalls == <<"e", "x", "t", "e", "r", "n", "a", "l", "-", "c", "a", "l", "l", "s">>

Valid(x) == x \in {LocalSecretsOverride, Metrics, V2, BetaRuntime, ExternalCalls}

\* the byte of a character
Byte ==
    "\"" :> 34 @@ "'" :> 39 @@ "," :> 44 @@ "-" :> 45 @@ "2" :> 50 @@ "3" :> 51 @@
    "=" :> 61 @@ "C" :> 67 @@ "E" :> 69 @@ "I" :> 73 @@ "M" :> 77 @@ "N" :> 78 @@
    "O" :> 79 @@ "P" :> 80 @@ "R" :> 82 @@ "S" :> 83 @@ "T" :> 84 @@ "X" :> 88 @@
    "_" :> 95 @@ "a" :> 97 @@ "b" :> 98 @@ "c" :> 99 @@ "d" :> 100 @@ "e" :> 101 @@
    "i" :> 105 @@ "l" :> 108 @@ "m" :> 109 @@ "n" :> 110 @@ "o" :> 111 @@
    "r" :> 114 @@ "s" :> 115 @@ "t" :> 116 @@ "u" :> 117 @@ "v" :> 118 @@
    "x" :> 120

RECURSIVE Less(_, _)
\* a < b on Go strings: byte-wise lexicographic
Less(a, b) ==
    IF b = <<>> THEN FALSE
    ELSE IF a = <<>> THEN TRUE
    ELSE IF Byte[Head(a)] # Byte[Head(b)] THEN Byte[Head(a)] < Byte[Head(b)]
    ELSE Less(Tail(a), Tail(b))

RECURSIVE TrimLeft(_, _)
TrimLeft(str, cutset) ==
    IF str # <<>> /\ Head(str) \in cutset THEN TrimLeft(Tail(str), cutset) ELSE str

RECURSIVE TrimRight(_, _)
TrimRight(str, cutset) ==
    IF str # <<>> /\ str[Len(str)] \in cutset
    THEN TrimRight(SubSeq(str, 1, Len(str) - 1), cutset)
    ELSE str

\* strings.Trim(str, cutset)
Trim(str, cutset) == TrimRight(TrimLeft(str, cutset), cutset)

RECURSIVE SplitFrom(_, _, _, _)
\* the pieces of str from position i on, cur being the piece read so far
SplitFrom(str, sep, i, cur) ==
    IF i > Len(str) THEN <<cur>>
    ELSE IF str[i] = sep THEN <<cur>> \o SplitFrom(str, sep, i + 1, <<>>)
    ELSE SplitFrom(str, sep, i + 1, Append(cur, str[i]))

\* strings.Split(str, sep) for a one-character separator
Split(str, sep) == SplitFrom(str, sep, 1, <<>>)

\* parseEnvVal without the trimming of quotes
parseEnvVal_NoTrim(val) ==
    IF val = EmptyString THEN <<>> ELSE Split(val, ",")

parseEnvVal(val) ==
    IF val = EmptyString THEN <<>>
    ELSE Split(Trim(val, {"\"", "'"}), ",")

UnknownExperimentError(name) == [msg |-> "unknown experiment", Name |-> name]

\* make(map[Name]bool)
NoExperiments == [k \in {} |-> TRUE]

RECURSIVE addLoop(_, _, _)
addLoop(experiments, keys, i) ==
    IF i > Len(keys) THEN [experiments |-> experiments, err |-> Nil]
    ELSE IF keys[i] = EmptyString THEN addLoop(experiments, keys, i + 1)
    ELSE IF ~Valid(keys[i])
    THEN [experiments |-> experiments, err |-> UnknownExperimentError(keys[i])]
    ELSE addLoop([k \in (DOMAIN experiments) \cup {keys[i]} |-> TRUE], keys, i + 1)

\* add that passes over an unknown name
add_SkipUnknown(experiments, keys) ==
    [experiments |-> [k \in (DOMAIN experiments) \cup
                             {keys[i] : i \in {j \in 1..Len(keys) : Valid(keys[j])}}
                         |-> TRUE],
     err |-> Nil]

\* Set.add
add(experiments, keys) == addLoop(experiments, keys, 1)

\* the nil *Set
NilSet == [nil |-> TRUE]

RECURSIVE environLoop(_, _, _)
\* the loop of NewSet over environ, from index i on
environLoop(experiments, environ_, i) ==
    IF i > Len(environ_) THEN [set |-> [experiments |-> experiments], err |-> Nil]
    ELSE LET env == environ_[i]
             prefix == envName \o <<"=">>
         IN  IF HasPrefix(env, prefix)
             THEN LET a == add(experiments,
                               parseEnvVal(SubSeq(env, Len(prefix) + 1, Len(env))))
                  IN  IF a.err # Nil THEN [set |-> NilSet, err |-> a.err]
                      ELSE environLoop(a.experiments, environ_, i + 1)
             ELSE environLoop(experiments, environ_, i + 1)

\* NewSet(fromAppFile, environ), getenv being os.Getenv(envName)
NewSet(fromAppFile_, getenv, environ_) ==
    LET a == add(NoExperiments, fromAppFile_)
    IN  IF a.err # Nil THEN [set |-> NilSet, err |-> a.err]
        ELSE LET b == IF getenv # EmptyString
                      THEN add(a.experiments, parseEnvVal(getenv))
                      ELSE a
             IN  IF b.err # Nil THEN [set |-> NilSet, err |-> b.err]
                 ELSE environLoop(b.experiments, environ_, 1)

RECURSIVE Keys(_)
\* maps.Keys: the keys in some order
Keys(S) ==
    IF S = {} THEN <<>>
    ELSE LET k == CHOOSE x \in S : TRUE IN <<k>> \o Keys(S \ {k})

RECURSIVE Insert(_, _)
Insert(sorted, x) ==
    IF sorted = <<>> THEN <<x>>
    ELSE IF Less(x, Head(sorted)) THEN <<x>> \o sorted
    ELSE <<Head(sorted)>> \o Insert(Tail(sorted), x)

RECURSIVE Sort(_)
\* slices.Sort
Sort(names) ==
    IF names = <<>> THEN <<>> ELSE Insert(Sort(Tail(names)), Head(names))

\* List without the sort
List_Unsorted(set) ==
    IF set = NilSet THEN <<>>
    ELSE LET names == Sort(Keys(DOMAIN set.experiments))
         IN  [i \in 1..Len(names) |-> names[Len(names) + 1 - i]]

\* Set.List
List(set) ==
    IF set = NilSet THEN <<>> ELSE Sort(Keys(DOMAIN set.experiments))

\* Name.Enabled
Enabled(x, set) ==
    IF set = NilSet THEN FALSE
    ELSE x \in DOMAIN set.experiments /\ set.experiments[x]

(***************************************************************************)
(* The inputs of NewSet.  A value of ENCORE_EXPERIMENT is written as names *)
(* joined by commas between quotes; osEnv and the entries of environ keep  *)
(* the names and the quotes they were written from, and the code reads the *)
(* text.                                                                   *)
(***************************************************************************)
V3 == <<"v", "3">>

Metric == <<"m", "e", "t", "r", "i", "c">>

NamePool == {Metrics, V2, V3, Metric, EmptyString}

NoQuotes == [open |-> <<>>, close |-> <<>>]

Quotings ==
    {[open |-> <<"\"">>, close |-> <<"\"">>],
     [open |-> <<"'">>, close |-> <<"'">>],
     [open |-> <<"\"", "'">>, close |-> <<>>]}

EnvironKeys == {envName, envName \o <<"S">>, <<"P", "A", "T", "H">>}

RECURSIVE Join(_)
\* the names joined by commas
Join(names) ==
    IF names = <<>> THEN <<>>
    ELSE IF Len(names) = 1 THEN names[1]
    ELSE names[1] \o <<",">> \o Join(Tail(names))

\* the text of a value
Text(v) == v.quotes.open \o Join(v.names) \o v.quotes.close

\* os.Getenv(envName)
Getenv == Text(osEnv)

\* the environ argument: "KEY=value" entries
Environ == [i \in 1..Len(environ) |-> environ[i].key \o <<"=">> \o Text(environ[i])]

Size(v) == Len(v.names) + (IF v.quotes = NoQuotes THEN 0 ELSE 1)

RECURSIVE SizeAll(_)
SizeAll(entries) ==
    IF entries = <<>> THEN 0 ELSE 1 + Size(Head(entries)) + SizeAll(Tail(entries))

InputSize == Len(fromAppFile) + Size(osEnv) + SizeAll(environ)

ExpInit ==
    /\ fromAppFile = <<>>
    /\ osEnv = [quotes |-> NoQuotes, names |-> <<>>]
    /\ environ = <<>>
    /\ ret = [kind |-> "none"]

\* the app file declares one more experiment
DeclareInAppFile ==
    \E n \in NamePool :
        /\ ret.kind = "none"
        /\ InputSize < MaxInput
        /\ osEnv.names = <<>> /\ osEnv.quotes = NoQuotes /\ environ = <<>>
        /\ fromAppFile' = Append(fromAppFile, n)
        /\ UNCHANGED <<osEnv, environ, ret>>
        /\ UNCHANGED authVars

\* the process environment gets a quoted ENCORE_EXPERIMENT
QuoteOsEnv ==
    \E q \in Quotings :
        /\ ret.kind = "none"
        /\ InputSize < MaxInput
        /\ osEnv.names = <<>> /\ osEnv.quotes = NoQuotes /\ environ = <<>>
        /\ osEnv' = [osEnv EXCEPT !.quotes = q]
        /\ UNCHANGED <<fromAppFile, environ, ret>>
        /\ UNCHANGED authVars

\* one more name in the ENCORE_EXPERIMENT of the process environment
AddToOsEnv ==
    \E n \in NamePool :
        /\ ret.kind = "none"
        /\ InputSize < MaxInput
        /\ environ = <<>>
        /\ osEnv' = [osEnv EXCEPT !.names = Append(@, n)]
        /\ UNCHANGED <<fromAppFile, environ, ret>>
        /\ UNCHANGED authVars

\* one more entry in the caller's environ
AddEnviron ==
    \E k \in EnvironKeys, q \in Quotings \cup {NoQuotes} :
        /\ ret.kind = "none"
        /\ InputSize + (IF q = NoQuotes THEN 0 ELSE 1) < MaxInput
        /\ environ' = Append(environ, [key |-> k, quotes |-> q, names |-> <<>>])
        /\ UNCHANGED <<fromAppFile, osEnv, ret>>
        /\ UNCHANGED authVars

\* one more name in the last entry of the caller's environ
AddToEnviron ==
    \E n \in NamePool :
        /\ ret.kind = "none"
        /\ InputSize < MaxInput
        /\ environ # <<>>
        /\ environ' = [environ EXCEPT ![Len(environ)].names = Append(@, n)]
        /\ UNCHANGED <<fromAppFile, osEnv, ret>>
        /\ UNCHANGED authVars

\* the process builds its experiment set, once
CallNewSet ==
    LET r == NewSet(fromAppFile, Getenv, Environ)
    IN  /\ ret.kind = "none"
        /\ ret' = [kind |-> "NewSet", set |-> r.set, err |-> r.err,
                   list |-> List(r.set)]
        /\ UNCHANGED <<fromAppFile, osEnv, environ>>
        /\ UNCHANGED authVars

Init == AuthInit /\ ExpInit

Next == NewRequest \/ DoSign \/ Tamper \/ Forge \/ DoVerify

Spec == Init /\ [][Next]_vars

ExpNext ==
    \/ DeclareInAppFile \/ QuoteOsEnv \/ AddToOsEnv
    \/ AddEnviron \/ AddToEnviron \/ CallNewSet

ExpSpec == Init /\ [][ExpNext]_vars

(***************************************************************************)
(* Properties of Sign and Verify.                                          *)
(***************************************************************************)
\* the Svc-Auth-Method entry of the request
Marker == ReadMeta(req, AuthMethodMetaKey)

\* the indices of the loaded methods whose name is exactly the declared one
Matches(loaded) == {i \in 1..Len(loaded) : loaded[i].name = Marker.value}

DistinctNames(loaded) ==
    \A i, j \in 1..Len(loaded) : loaded[i].name = loaded[j].name => i = j

\* every reordering of a loaded sequence
Reorderings(loaded) ==
    {[i \in 1..Len(loaded) |-> loaded[p[i]]] : p \in Permutations(1..Len(loaded))}

Outcome(v) == <<v.internalCall, v.err>>

\* a method whose verify accepts what its own sign produced
SelfConsistent(m) == m.key # NoKey /\ m.key = m.vkey

\* C1: round trip.  Verify(R, M) right after a successful Sign(M, R), on the
\* unmodified request, by a method that accepts its own signatures, returns
\* internalCall = true and a nil error.
C1_RoundTrip ==
    (/\ op.kind = "verify"
     /\ intact # NoMethod
     /\ SelfConsistent(intact)
     /\ op.loaded = <<intact>>)
    => (op.internalCall = TRUE /\ op.err = Nil)

C1_Witness ==
    /\ op.kind = "verify"
    /\ intact # NoMethod
    /\ SelfConsistent(intact)
    /\ op.loaded = <<intact>>
    /\ req.body = "GET /orders/43"
    /\ op.internalCall

\* C2: with no Svc-Auth-Method entry on the request, Verify returns
\* (false, nil) whatever methods are loaded, and invokes no verify operation.
C2_AbsentMarker ==
    (op.kind = "verify" /\ ~Marker.found)
    => (op.internalCall = FALSE /\ op.err = Nil /\ op.calls = <<>>)

C2_Witness ==
    /\ op.kind = "verify"
    /\ ~Marker.found
    /\ AuthTagMetaKey \in DOMAIN req.meta
    /\ \E i \in 1..Len(op.loaded) :
          op.loaded[i].name = EmptyString /\ verify(op.loaded[i], req) = Nil
    /\ op.internalCall = FALSE

\* C3: when the Svc-Auth-Method entry is present and no loaded method has
\* exactly that name, Verify returns false with the unknown-method error
\* naming the declared value, and invokes no verify operation.
C3_UnknownMethod ==
    (op.kind = "verify" /\ Marker.found /\ Matches(op.loaded) = {})
    => (/\ op.internalCall = FALSE
        /\ op.err = Errorf_s("unknown service to service authentication method",
                             Marker.value)
        /\ op.calls = <<>>)

C3_Witness ==
    /\ op.kind = "verify"
    /\ intact # NoMethod
    /\ intact.name = Hmac
    /\ Len(op.loaded) = 2
    /\ op.loaded[1].name = HmacV1
    /\ op.loaded[2].name = HmacUpper
    /\ verify(op.loaded[1], req) = Nil
    /\ op.err.msg = "unknown service to service authentication method"

\* C4: a Sign whose method fails to sign returns an error wrapping the cause
\* and leaves the Svc-Auth-Method entry as it was (absent, or its old value).
C4_FailedSignKeepsMarker ==
    [][(op'.kind = "sign" /\ op'.err # Nil)
        => (/\ ReadMeta(req', AuthMethodMetaKey) = ReadMeta(req, AuthMethodMetaKey)
            /\ op'.err = Errorf_w("failed to sign request", sign(op'.m, req).err))]_vars

C4_Witness ==
    /\ op.kind = "sign"
    /\ op.err # Nil
    /\ op.err.wraps.msg = "missing key material"
    /\ Marker.found
    /\ Marker.value # op.m.name

\* C5: when the declared method is loaded and its verify fails, Verify returns
\* false with a non-nil error wrapping the cause as a verification failure,
\* which is neither the absent-marker result nor the unknown-method error.
C5_VerificationFailure ==
    (/\ op.kind = "verify"
     /\ Marker.found
     /\ Matches(op.loaded) # {}
     /\ verify(op.loaded[MinOf(Matches(op.loaded))], req) # Nil)
    => (/\ op.internalCall = FALSE
        /\ op.err # Nil
        /\ op.err = Errorf_w("failed to verify request",
                             verify(op.loaded[MinOf(Matches(op.loaded))], req))
        /\ op.err.msg # "unknown service to service authentication method")

C5_Witness ==
    /\ op.kind = "verify"
    /\ Marker.found
    /\ Marker.value = HmacV1
    /\ AuthTagMetaKey \in DOMAIN req.meta
    /\ req.meta[AuthTagMetaKey] = Mac("s3cr3t", "GET /orders/42")
    /\ req.body = "GET /orders/43"
    /\ op.loaded = <<[name |-> HmacV1, key |-> "s3cr3t", vkey |-> "s3cr3t"]>>
    /\ op.internalCall = FALSE
    /\ op.err.msg = "failed to verify request"
    /\ op.err.wraps.msg = "bad signature"

\* C6: for loaded methods with pairwise distinct names, the result is that of
\* the one loaded method with the declared name: its verify is the only one
\* invoked (also when it fails), every reordering of the loaded sequence gives
\* the same result, and a request signed by a loaded method verifies.
C6_NoFallback ==
    (op.kind = "verify" /\ DistinctNames(op.loaded))
    => (/\ \A l \in Reorderings(op.loaded) :
              Outcome(Verify(req, l)) = Outcome(op)
        /\ (Marker.found /\ Matches(op.loaded) # {})
              => LET one == op.loaded[MinOf(Matches(op.loaded))]
                 IN  /\ op.calls = <<one>>
                     /\ Outcome(op) = Outcome(Verify(req, <<one>>))
                     /\ op.internalCall = (verify(one, req) = Nil)
        /\ (/\ intact # NoMethod
            /\ SelfConsistent(intact)
            /\ \E i \in 1..Len(op.loaded) : op.loaded[i] = intact)
              => (op.internalCall = TRUE /\ op.err = Nil))

C6_Witness ==
    /\ op.kind = "verify"
    /\ Len(op.loaded) = 2
    /\ DistinctNames(op.loaded)
    /\ intact = op.loaded[2]
    /\ SelfConsistent(intact)
    /\ verify(op.loaded[1], req) = Nil
    /\ op.internalCall = TRUE
    /\ op.calls = <<intact>>

\* C9: loaded methods sharing a name are rejected rather than resolved by scan
\* order: the outcome of Verify does not depend on which of two same-named
\* loaded methods comes first.
C9_SameNameOrderIndependent ==
    (op.kind = "verify" /\ ~DistinctNames(op.loaded))
    => \A l \in Reorderings(op.loaded) : Outcome(Verify(req, l)) = Outcome(op)

\* C10: Verify returns one of three result shapes and never (true, error):
\* internalCall is true exactly when the marker is present, some loaded method
\* has exactly that name and the first such method's verify succeeds; otherwise
\* it is false, with a nil error only when the marker is absent.
C10_ResultShapes ==
    op.kind = "verify"
    => (/\ ~(op.internalCall /\ op.err # Nil)
        /\ op.internalCall =
              (/\ Marker.found
               /\ Matches(op.loaded) # {}
               /\ verify(op.loaded[MinOf(Matches(op.loaded))], req) = Nil)
        /\ ~op.internalCall => ((op.err = Nil) = ~Marker.found)
        /\ \/ (op.internalCall /\ op.err = Nil)
           \/ (~op.internalCall /\ op.err = Nil)
           \/ (~op.internalCall /\ op.err # Nil
               /\ op.err.msg \in {"failed to verify request",
                                  "unknown service to service authentication method"}))

C10_Witness ==
    /\ op.kind = "verify"
    /\ Marker.found
    /\ Marker.value = EmptyString
    /\ Len(op.loaded) = 2
    /\ op.loaded[1].name = EmptyString
    /\ op.loaded[2].name = Hmac
    /\ op.internalCall = TRUE

\* C11: after any Sign calls on one request, the Svc-Auth-Method entry is the
\* name of the method of the most recent Sign that succeeded, and is absent
\* when none has; a failed Sign leaves the entry as it was, and Verify neither
\* writes nor removes it.
C11_MarkerIsLastSuccessfulSign ==
    /\ [](/\ signed.kind = "none" => ~Marker.found
          /\ signed.kind \in {"signed", "resigned"}
                => (Marker.found /\ Marker.value = signed.name))
    /\ [][/\ (op'.kind = "sign" /\ op'.err # Nil)
             => ReadMeta(req', AuthMethodMetaKey) = ReadMeta(req, AuthMethodMetaKey)
          /\ (op'.kind = "sign" /\ op'.err = Nil)
             => ReadMeta(req', AuthMethodMetaKey)
                   = [value |-> op'.m.name, found |-> TRUE]
          /\ op'.kind = "verify" => req'.meta = req.meta]_vars

C11_Witness ==
    /\ signed.kind = "resigned"
    /\ signed.name = HmacV1
    /\ op.kind = "sign"
    /\ op.err # Nil
    /\ op.m.name = HmacV2
    /\ Marker.found
    /\ Marker.value = HmacV1
    /\ intact.name = HmacV1


(***************************************************************************)
(* Properties of NewSet.                                                   *)
(***************************************************************************)
RECURSIVE NamesOfEnviron(_)
\* the names written into the ENCORE_EXPERIMENT entries, in order
NamesOfEnviron(entries) ==
    IF entries = <<>> THEN <<>>
    ELSE (IF Head(entries).key = envName THEN Head(entries).names ELSE <<>>)
         \o NamesOfEnviron(Tail(entries))

\* every name of the inputs, in the order app file, process, environ
InputNames == fromAppFile \o osEnv.names \o NamesOfEnviron(environ)

\* the non-empty names of the inputs
Declared == {InputNames[i] : i \in 1..Len(InputNames)} \ {EmptyString}

Known == {LocalSecretsOverride, Metrics, V2, BetaRuntime, ExternalCalls}

UnknownAt == {i \in 1..Len(InputNames) :
                 InputNames[i] # EmptyString /\ InputNames[i] \notin Known}

\* C7: when every non-empty name of the inputs is a known experiment, NewSet
\* returns a set enabling exactly the names of the app file and of every
\* ENCORE_EXPERIMENT value, and List gives them ascending, each once; the app
\* file [metrics] with ENCORE_EXPERIMENT v2,metrics gives [metrics, v2].
C7_UnionSorted ==
    (ret.kind = "NewSet" /\ Declared \subseteq Known)
    => (/\ ret.err = Nil
        /\ ret.set # NilSet
        /\ DOMAIN ret.set.experiments = Declared
        /\ \A x \in Known \cup NamePool : Enabled(x, ret.set) = (x \in Declared)
        /\ Len(ret.list) = Cardinality(Declared)
        /\ {ret.list[i] : i \in 1..Len(ret.list)} = Declared
        /\ \A i \in 1..(Len(ret.list) - 1) : Less(ret.list[i], ret.list[i + 1])
        /\ (fromAppFile = <<Metrics>> /\ osEnv.names = <<V2, Metrics>> /\ environ = <<>>)
              => ret.list = <<Metrics, V2>>)

C7_Witness ==
    /\ ret.kind = "NewSet"
    /\ fromAppFile = <<Metrics>>
    /\ Getenv = <<"\"", "v", "2", ",", "m", "e", "t", "r", "i", "c", "s", "\"">>
    /\ environ = <<>>
    /\ ret.err = Nil
    /\ ret.list = <<Metrics, V2>>

\* C8: an unknown name anywhere in the inputs (app file, process
\* ENCORE_EXPERIMENT, an ENCORE_EXPERIMENT= entry of environ) makes NewSet
\* return no set and an UnknownExperimentError naming the unknown name, the
\* first one in the order the inputs are read.
C8_UnknownRejected ==
    (ret.kind = "NewSet" /\ UnknownAt # {})
    => (/\ ret.set = NilSet
        /\ ret.list = <<>>
        /\ ret.err = UnknownExperimentError(InputNames[MinOf(UnknownAt)]))

C8_Witness ==
    /\ ret.kind = "NewSet"
    /\ fromAppFile = <<Metrics>>
    /\ Getenv = EmptyString
    /\ Len(environ) = 1
    /\ environ[1].key = envName
    /\ environ[1].names = <<V2, V3>>
    /\ ret.set = NilSet
    /\ ret.err = UnknownExperimentError(V3)

====
